---- MODULE Spec2Model ----
(***************************************************************************)
(* A model of src/hash_table.py: a fixed-size hash table of contacts with  *)
(* separate chaining.  Objects live in two heaps (Node objects and Contact  *)
(* objects); a reference is the object's position in its heap and None is  *)
(* the null reference.  A string is a sequence of one-character strings.   *)
(***************************************************************************)
EXTENDS Integers, Sequences, FiniteSets, TLC

VARIABLES size, data, nodes, contacts, log, last

vars == <<size, data, nodes, contacts, log, last>>

\* ------------------------------------------------------------------ bounds

\* Largest capacity a table is constructed with.
MaxCapacity == 3
\* Largest number of insert calls in one run.
MaxOps == 3
\* Longest key handed to hash_function in SpecHash.
MaxKeyLen == 3

\* The capacities handed to the constructor, the invalid ones included.
Capacities == (-1)..MaxCapacity

\* Keys of the table runs: the empty key and an anagram pair.  The pair
\* shares a bucket at every capacity; the empty key joins it at capacities
\* 1 and 3 and has a bucket of its own at capacity 2.
Keys == { <<>>, <<"a", "b">>, <<"b", "a">> }
\* Phone numbers.
Numbers == { <<"1">>, <<"2">> }

\* Keys of the hash runs: every string over HashChars up to MaxKeyLen.
HashChars == {"a", "b", "d"}
HashKeys == UNION { [1..n -> HashChars] : n \in 0..MaxKeyLen }

\* ------------------------------------------------------------- Python core

\* The null reference.
None == 0

\* ord() on the characters the model uses.
ord(char) ==
    CASE char = "a" -> 97
      [] char = "b" -> 98
      [] char = "d" -> 100
      [] char = "1" -> 49
      [] char = "2" -> 50
      [] char = " " -> 32
      [] char = ":" -> 58
      [] char = "-" -> 45

\* Python's a % b for a >= 0 and b # 0: the result takes the sign of b.
PyMod(a, b) ==
    IF b > 0 THEN a % b
    ELSE LET m == a % (-b) IN IF m = 0 THEN 0 ELSE m + b

\* Python's list index check: list[index] exists for -len <= index < len.
IndexInRange(index, len) == index >= -len /\ index < len

\* list[index] of a list of length len held as a function on 0..len-1.
ListSlot(index, len) == IF index < 0 THEN index + len ELSE index

\* str(i) for an integer i >= 0.
Digit(d) ==
    CASE d = 0 -> "0" [] d = 1 -> "1" [] d = 2 -> "2" [] d = 3 -> "3"
      [] d = 4 -> "4" [] d = 5 -> "5" [] d = 6 -> "6" [] d = 7 -> "7"
      [] d = 8 -> "8" [] d = 9 -> "9"

RECURSIVE IntStr(_)
IntStr(i) == IF i < 10 THEN <<Digit(i)>> ELSE IntStr(i \div 10) \o <<Digit(i % 10)>>

\* The whitespace str.strip() removes.
IsSpace(char) == char \in {" ", "\t", "\n", "\r", "\f"}

RECURSIVE LStrip(_)
LStrip(s) == IF s # <<>> /\ IsSpace(Head(s)) THEN LStrip(Tail(s)) ELSE s

RECURSIVE RStrip(_)
RStrip(s) ==
    IF s # <<>> /\ IsSpace(s[Len(s)]) THEN RStrip(SubSeq(s, 1, Len(s) - 1)) ELSE s

\* str.strip()
Strip(s) == RStrip(LStrip(s))

\* ------------------------------------------------------------ the classes

\* Contact.__init__
Contact(name, number) == [name |-> name, number |-> number]

\* Contact.__str__: f"{self.name}: {self.number}"
Str(contact) == contact.name \o <<":", " ">> \o contact.number

\* Node.__init__
Node(key, value) == [key |-> key, value |-> value, next |-> None]

\* The loop of hash_function: hash_value += ord(char) for each char of key.
RECURSIVE HashLoop(_, _, _)
HashLoop(key, i, hash_value) ==
    IF i > Len(key) THEN hash_value
    ELSE HashLoop(key, i + 1, hash_value + ord(key[i]))

\* A bug of hash_function: the characters weighted by their position.
RECURSIVE WeightedLoop(_, _, _)
WeightedLoop(key, i, hash_value) ==
    IF i > Len(key) THEN hash_value
    ELSE WeightedLoop(key, i + 1, hash_value + i * ord(key[i]))

hash_function_weighted(key) == PyMod(WeightedLoop(key, 1, 0), size)

\* HashTable.hash_function, where it returns (size # 0).
hash_function(key) == PyMod(HashLoop(key, 1, 0), size)

\* hash_function raises ZeroDivisionError at "% self.size" when size = 0.
HashRaises == size = 0

\* The traversal of insert, from a node that is not None: the node holding
\* key (found), or else the last node of the chain.
RECURSIVE InsertWalk(_, _)
InsertWalk(current, key) ==
    IF nodes[current].key = key THEN [found |-> TRUE, node |-> current]
    ELSE IF nodes[current].next = None THEN [found |-> FALSE, node |-> current]
    ELSE InsertWalk(nodes[current].next, key)

\* The heaps and bucket array unchanged, with the exception raised.
Raise(exception) ==
    [data |-> data, nodes |-> nodes, contacts |-> contacts, raised |-> exception]

\* A bug of insert: a new key is linked in at the head of its chain.
insert_prepend(key, number) ==
    IF HashRaises THEN Raise("ZeroDivisionError")
    ELSE LET index == hash_function(key) IN
      IF ~IndexInRange(index, Len(data)) THEN Raise("IndexError")
      ELSE
        LET slot == ListSlot(index, Len(data)) + 1
            fresh == [Node(key, Len(contacts) + 1) EXCEPT !.next = data[slot]]
            found == IF data[slot] = None THEN [found |-> FALSE]
                     ELSE InsertWalk(data[slot], key)
        IN IF found.found
           THEN [data |-> data, nodes |-> nodes,
                 contacts |-> [contacts EXCEPT ![nodes[found.node].value].number = number],
                 raised |-> "none"]
           ELSE [data |-> [data EXCEPT ![slot] = Len(nodes) + 1],
                 nodes |-> Append(nodes, fresh),
                 contacts |-> Append(contacts, Contact(key, number)),
                 raised |-> "none"]

\* A bug of insert: no comparison of keys, every call appends an entry.
insert_no_update(key, number) ==
    IF HashRaises THEN Raise("ZeroDivisionError")
    ELSE LET index == hash_function(key) IN
      IF ~IndexInRange(index, Len(data)) THEN Raise("IndexError")
      ELSE
        LET slot == ListSlot(index, Len(data)) + 1
            RECURSIVE Tail_(_)
            Tail_(n) == IF nodes[n].next = None THEN n ELSE Tail_(nodes[n].next)
        IN IF data[slot] = None
           THEN [data |-> [data EXCEPT ![slot] = Len(nodes) + 1],
                 nodes |-> Append(nodes, Node(key, Len(contacts) + 1)),
                 contacts |-> Append(contacts, Contact(key, number)),
                 raised |-> "none"]
           ELSE [data |-> data,
                 nodes |-> Append([nodes EXCEPT ![Tail_(data[slot])].next = Len(nodes) + 1],
                                  Node(key, Len(contacts) + 1)),
                 contacts |-> Append(contacts, Contact(key, number)),
                 raised |-> "none"]

\* A bug of insert: the bucket is chosen by the key's length.
insert_by_length(key, number) ==
    IF HashRaises THEN Raise("ZeroDivisionError")
    ELSE LET index == PyMod(Len(key), size) IN
      IF ~IndexInRange(index, Len(data)) THEN Raise("IndexError")
      ELSE
        LET slot == ListSlot(index, Len(data)) + 1 IN
        IF data[slot] = None
        THEN [data |-> [data EXCEPT ![slot] = Len(nodes) + 1],
              nodes |-> Append(nodes, Node(key, Len(contacts) + 1)),
              contacts |-> Append(contacts, Contact(key, number)),
              raised |-> "none"]
        ELSE LET w == InsertWalk(data[slot], key) IN
          IF w.found
          THEN [data |-> data, nodes |-> nodes,
                contacts |-> [contacts EXCEPT ![nodes[w.node].value].number = number],
                raised |-> "none"]
          ELSE [data |-> data,
                nodes |-> Append([nodes EXCEPT ![w.node].next = Len(nodes) + 1],
                                 Node(key, Len(contacts) + 1)),
                contacts |-> Append(contacts, Contact(key, number)),
                raised |-> "none"]

\* A bug of insert: the update replaces the entry's Contact by the new one.
insert_rebind(key, number) ==
    IF HashRaises THEN Raise("ZeroDivisionError")
    ELSE LET index == hash_function(key) IN
      IF ~IndexInRange(index, Len(data)) THEN Raise("IndexError")
      ELSE
        LET slot == ListSlot(index, Len(data)) + 1 IN
        IF data[slot] = None
        THEN [data |-> [data EXCEPT ![slot] = Len(nodes) + 1],
              nodes |-> Append(nodes, Node(key, Len(contacts) + 1)),
              contacts |-> Append(contacts, Contact(key, number)),
              raised |-> "none"]
        ELSE LET w == InsertWalk(data[slot], key) IN
          IF w.found
          THEN [data |-> data,
                nodes |-> [nodes EXCEPT ![w.node].value = Len(contacts) + 1],
                contacts |-> Append(contacts, Contact(key, number)),
                raised |-> "none"]
          ELSE [data |-> data,
                nodes |-> Append([nodes EXCEPT ![w.node].next = Len(nodes) + 1],
                                 Node(key, Len(contacts) + 1)),
                contacts |-> Append(contacts, Contact(key, number)),
                raised |-> "none"]

\* A bug of insert: a new key takes the bucket over and the chain is lost.
insert_drop_chain(key, number) ==
    IF HashRaises THEN Raise("ZeroDivisionError")
    ELSE LET index == hash_function(key) IN
      IF ~IndexInRange(index, Len(data)) THEN Raise("IndexError")
      ELSE
        LET slot == ListSlot(index, Len(data)) + 1
            found == IF data[slot] = None THEN [found |-> FALSE]
                     ELSE InsertWalk(data[slot], key)
        IN IF found.found
           THEN [data |-> data, nodes |-> nodes,
                 contacts |-> [contacts EXCEPT ![nodes[found.node].value].number = number],
                 raised |-> "none"]
           ELSE [data |-> [data EXCEPT ![slot] = Len(nodes) + 1],
                 nodes |-> Append(nodes, Node(key, Len(contacts) + 1)),
                 contacts |-> Append(contacts, Contact(key, number)),
                 raised |-> "none"]

\* HashTable.insert: the heaps and the bucket array after the call, and the
\* exception it raised.  The Contact of line 70 enters the heap when a Node
\* that refers to it is stored; on the update path nothing refers to it and
\* it is dropped on return.
insert(key, number) ==
    IF HashRaises THEN Raise("ZeroDivisionError")
    ELSE LET index == hash_function(key) IN
      IF ~IndexInRange(index, Len(data)) THEN Raise("IndexError")
      ELSE
        LET slot == ListSlot(index, Len(data)) + 1 IN
        IF data[slot] = None
        THEN [data |-> [data EXCEPT ![slot] = Len(nodes) + 1],
              nodes |-> Append(nodes, Node(key, Len(contacts) + 1)),
              contacts |-> Append(contacts, Contact(key, number)),
              raised |-> "none"]
        ELSE LET w == InsertWalk(data[slot], key) IN
          IF w.found
          THEN [data |-> data, nodes |-> nodes,
                contacts |-> [contacts EXCEPT ![nodes[w.node].value].number = number],
                raised |-> "none"]
          ELSE [data |-> data,
                nodes |-> Append([nodes EXCEPT ![w.node].next = Len(nodes) + 1],
                                 Node(key, Len(contacts) + 1)),
                contacts |-> Append(contacts, Contact(key, number)),
                raised |-> "none"]

\* The traversal of search: the value of the first node holding key, or None.
RECURSIVE SearchWalk(_, _)
SearchWalk(current, key) ==
    IF current = None THEN None
    ELSE IF nodes[current].key = key THEN nodes[current].value
    ELSE SearchWalk(nodes[current].next, key)

\* A bug of search: only the head of the chain is compared.
search_head_only(key) ==
    IF HashRaises THEN [result |-> None, raised |-> "ZeroDivisionError"]
    ELSE LET index == hash_function(key) IN
      IF ~IndexInRange(index, Len(data)) THEN [result |-> None, raised |-> "IndexError"]
      ELSE LET current == data[ListSlot(index, Len(data)) + 1] IN
        [result |-> IF current # None /\ nodes[current].key = key
                    THEN nodes[current].value ELSE None,
         raised |-> "none"]

\* A bug of search: a chain that holds entries answers with its head.
search_any(key) ==
    IF HashRaises THEN [result |-> None, raised |-> "ZeroDivisionError"]
    ELSE LET index == hash_function(key) IN
      IF ~IndexInRange(index, Len(data)) THEN [result |-> None, raised |-> "IndexError"]
      ELSE LET current == data[ListSlot(index, Len(data)) + 1] IN
        [result |-> IF current # None THEN nodes[current].value ELSE None,
         raised |-> "none"]

\* HashTable.search: the reference it returns and the exception it raised.
search(key) ==
    IF HashRaises THEN [result |-> None, raised |-> "ZeroDivisionError"]
    ELSE LET index == hash_function(key) IN
      IF ~IndexInRange(index, Len(data)) THEN [result |-> None, raised |-> "IndexError"]
      ELSE [result |-> SearchWalk(data[ListSlot(index, Len(data)) + 1], key),
            raised |-> "none"]

\* The inner loop of print_table: chain += f"- {current.value} ".
RECURSIVE ChainText(_)
ChainText(current) ==
    IF current = None THEN <<>>
    ELSE <<"-", " ">> \o Str(contacts[nodes[current].value]) \o <<" ">>
         \o ChainText(nodes[current].next)

\* The line print_table prints for index i.
IndexLine(i) ==
    <<"I", "n", "d", "e", "x", " ">> \o IntStr(i) \o <<":", " ">>
    \o (IF data[i + 1] = None THEN <<"E", "m", "p", "t", "y">>
        ELSE Strip(ChainText(data[i + 1])))

\* HashTable.print_table: the lines printed, one for each i in range(size).
print_table == [line \in 1..size |-> IndexLine(line - 1)]

\* ---------------------------------------------------------------- actions

\* What the caller saw of the last call.
Call(op, key, number, result, out, raised) ==
    [op |-> op, key |-> key, number |-> number, result |-> result,
     out |-> out, raised |-> raised]

\* HashTable.__init__: self.data = [None] * size, which is [] for size <= 0.
\* data[i + 1] is the code's self.data[i].
Init ==
    /\ size \in Capacities
    /\ data = [i \in 1..size |-> None]
    /\ nodes = <<>>
    /\ contacts = <<>>
    /\ log = <<>>
    /\ last = Call("__init__", <<>>, <<>>, None, <<>>, "none")

\* A call table.insert(key, number).
Insert(key, number) ==
    /\ Len(log) < MaxOps
    /\ LET r == insert(key, number) IN
         /\ data' = r.data
         /\ nodes' = r.nodes
         /\ contacts' = r.contacts
         /\ last' = Call("insert", key, number, None, <<>>, r.raised)
    /\ log' = Append(log, [key |-> key, number |-> number])
    /\ UNCHANGED size

\* A bug of search: the node found is moved to the head of its chain.
SearchMoveToFront(key) ==
    /\ LET r == search(key) IN
         /\ last' = Call("search", key, <<>>, r.result, <<>>, r.raised)
         /\ IF r.result = None THEN UNCHANGED <<data, nodes>>
            ELSE LET slot == ListSlot(hash_function(key), Len(data)) + 1
                     head == data[slot]
                     hit == CHOOSE n \in 1..Len(nodes) : nodes[n].value = r.result
                     before == CHOOSE n \in 0..Len(nodes) :
                                 IF hit = head THEN n = 0
                                 ELSE n > 0 /\ nodes[n].next = hit
                 IN IF hit = head THEN UNCHANGED <<data, nodes>>
                    ELSE /\ data' = [data EXCEPT ![slot] = hit]
                         /\ nodes' = [nodes EXCEPT ![before].next = nodes[hit].next,
                                                   ![hit].next = head]
    /\ UNCHANGED <<size, contacts, log>>

\* A call table.search(key).
Search(key) ==
    /\ LET r == search(key) IN
         last' = Call("search", key, <<>>, r.result, <<>>, r.raised)
    /\ UNCHANGED <<size, data, nodes, contacts, log>>

\* A call table.print_table().
PrintTable ==
    /\ last' = Call("print_table", <<>>, <<>>, None, print_table, "none")
    /\ UNCHANGED <<size, data, nodes, contacts, log>>

Next ==
    \/ \E key \in Keys, number \in Numbers : Insert(key, number)
    \/ \E key \in Keys : Search(key)
    \/ PrintTable

Spec == Init /\ [][Next]_vars

\* A call table.hash_function(key); result is None when it raised.
HashCall(key) ==
    /\ last' = IF HashRaises
               THEN Call("hash_function", key, <<>>, None, <<>>, "ZeroDivisionError")
               ELSE Call("hash_function", key, <<>>, hash_function(key), <<>>, "none")
    /\ UNCHANGED <<size, data, nodes, contacts, log>>

NextHash == \E key \in HashKeys : HashCall(key)

\* The runs of hash_function alone, over every key up to MaxKeyLen.
SpecHash == Init /\ [][NextHash]_vars

\* ------------------------------------------------- what the claims speak of

Range(f) == { f[x] : x \in DOMAIN f }

\* The nodes reachable from reference n by next, head first, in heap ns.
RECURSIVE ChainOf(_, _)
ChainOf(ns, n) == IF n = None THEN <<>> ELSE <<n>> \o ChainOf(ns, ns[n].next)

\* The chain of bucket slot (the code's index slot - 1) in bucket array d.
Bucket(d, ns, slot) == ChainOf(ns, d[slot])

\* The keys of a chain, head first.
KeysOf(ns, chain) == [p \in 1..Len(chain) |-> ns[chain[p]].key]

\* The places of the table: a bucket slot and a position in its chain.
Places == { pl \in (DOMAIN data) \X (1..Len(nodes)) :
              pl[2] <= Len(Bucket(data, nodes, pl[1])) }

KeyAt(pl) == nodes[Bucket(data, nodes, pl[1])[pl[2]]].key

\* The keys handed to insert so far.
LogKeys == { log[i].key : i \in 1..Len(log) }

\* The keys handed to insert, each once, in the order of their first insert.
RECURSIVE FirstKeys(_)
FirstKeys(l) ==
    IF l = <<>> THEN <<>>
    ELSE LET before == FirstKeys(SubSeq(l, 1, Len(l) - 1))
             key == l[Len(l)].key
         IN IF key \in Range(before) THEN before ELSE Append(before, key)

\* The number of the latest insert of key.
LatestNumber(key) ==
    LET i == CHOOSE i \in 1..Len(log) :
               /\ log[i].key = key
               /\ \A j \in (i + 1)..Len(log) : log[j].key # key
    IN log[i].number

\* The step is a call insert(key, number).
InsertStep(key, number) == log' = Append(log, [key |-> key, number |-> number])

IsPrefix(s, t) == Len(s) <= Len(t) /\ SubSeq(t, 1, Len(s)) = s

\* ------------------------------------------------------------------ claims

\* C1: on a table of capacity > 0, after any sequence of inserts no two
\* entries reachable from the buckets, in one chain or in two, have equal
\* keys.
C1_OneEntryPerKey ==
    size > 0 =>
      \A p1 \in Places, p2 \in Places : p1 # p2 => KeyAt(p1) # KeyAt(p2)

\* C1 witness: a key was inserted twice and some chain holds two entries.
C1_Witness ==
    /\ size > 0
    /\ last.op = "insert"
    /\ \E i \in 1..Len(log), j \in 1..Len(log) : i # j /\ log[i].key = log[j].key
    /\ \E s \in DOMAIN data : Len(Bucket(data, nodes, s)) >= 2

\* C2: on a table of capacity > 0, every entry reachable from buckets[i]
\* has hash_function(entry.key) = i.
C2_BucketOfHash ==
    size > 0 =>
      \A pl \in Places : hash_function(KeyAt(pl)) = pl[1] - 1

\* C2 witness: two buckets are in use and one of them holds a collision.
C2_Witness ==
    /\ size > 1
    /\ \E s1 \in DOMAIN data, s2 \in DOMAIN data :
         /\ s1 # s2
         /\ Len(Bucket(data, nodes, s1)) >= 2
         /\ Len(Bucket(data, nodes, s2)) >= 1

\* C3: on a table of capacity > 0 in any state, insert(k, v1) followed by
\* insert(k, v2) leaves exactly one entry for k, search(k) returns a Contact
\* whose number is v2, and the second insert creates no entry and writes the
\* number into the Contact the entry already had.
C3_UpdateLaw ==
    [][\A k \in Keys, v2 \in Numbers :
         (/\ size > 0
          /\ Len(log) >= 1
          /\ log[Len(log)].key = k
          /\ InsertStep(k, v2))
         => /\ last'.raised = "none"
            /\ nodes' = nodes
            /\ data' = data
            /\ Cardinality({ pl \in Places : KeyAt(pl) = k })' = 1
            /\ search(k)'.raised = "none"
            /\ search(k)'.result # None
            /\ search(k)'.result = search(k).result
            /\ contacts'[search(k)'.result] = Contact(k, v2)]_vars

\* C3 witness: the last two inserts had one key and different numbers, and
\* the key's chain holds another key as well.
C3_Witness ==
    /\ size > 0
    /\ last.op = "insert"
    /\ Len(log) >= 2
    /\ log[Len(log)].key = log[Len(log) - 1].key
    /\ log[Len(log)].number # log[Len(log) - 1].number
    /\ \E s \in DOMAIN data : Len(Bucket(data, nodes, s)) >= 2

\* C4: on a table of capacity > 0, search of a key that was never inserted
\* returns None and raises nothing, whether the key's bucket is empty or
\* holds a chain of other keys.
C4_SearchMiss ==
    size > 0 =>
      /\ \A k \in Keys \ LogKeys : search(k) = [result |-> None, raised |-> "none"]
      /\ (last.op = "search" /\ last.key \notin LogKeys)
           => last.result = None /\ last.raised = "none"

\* C4 witness: a search of a key never inserted whose bucket holds a chain
\* of two other keys.
C4_Witness ==
    /\ size > 0
    /\ last.op = "search"
    /\ last.key \notin LogKeys
    /\ Len(Bucket(data, nodes, hash_function(last.key) + 1)) >= 2

\* C4 witness of the other case: the key's bucket is empty while the table
\* is not.
C4_WitnessEmptyBucket ==
    /\ size > 0
    /\ last.op = "search"
    /\ last.key \notin LogKeys
    /\ data[hash_function(last.key) + 1] = None
    /\ nodes # <<>>

\* The text print_table builds for a chain of Contact values.
RECURSIVE ListingOf(_)
ListingOf(cs) ==
    IF cs = <<>> THEN <<>>
    ELSE <<"-", " ">> \o Str(Head(cs)) \o <<" ">> \o ListingOf(Tail(cs))

\* The keys of bucket slot in the order of their first insert.
FirstKeysOf(slot) ==
    LET InSlot(k) == hash_function(k) = slot - 1 IN SelectSeq(FirstKeys(log), InSlot)

\* C5: on a table of capacity > 0, each chain from head to tail, and the
\* line print_table prints for it, lists the bucket's keys in the order in
\* which each was first inserted.
C5_InsertionOrder ==
    size > 0 =>
      \A s \in DOMAIN data :
        LET order == FirstKeysOf(s) IN
          /\ KeysOf(nodes, Bucket(data, nodes, s)) = order
          /\ print_table[s] =
               <<"I", "n", "d", "e", "x", " ">> \o IntStr(s - 1) \o <<":", " ">>
               \o (IF order = <<>> THEN <<"E", "m", "p", "t", "y">>
                   ELSE Strip(ListingOf([p \in 1..Len(order) |->
                                  Contact(order[p], LatestNumber(order[p]))])))

\* C5 witness: two keys share a bucket, the first of them was inserted again
\* after the second, and the table was printed.
C5_Witness ==
    /\ size > 0
    /\ last.op = "print_table"
    /\ Len(log) = 3
    /\ log[1].key = log[3].key
    /\ log[1].key # log[2].key
    /\ log[1].number # log[3].number
    /\ hash_function(log[1].key) = hash_function(log[2].key)

\* C6: on a table of capacity > 0, for keys k1 # k2 with equal hash, once
\* both are inserted search(k1) returns a Contact with name k1 and the number
\* last inserted for k1, likewise for k2, and the two are distinct records.
C6_CollidingKeys ==
    size > 0 =>
      \A k1 \in LogKeys, k2 \in LogKeys :
        (k1 # k2 /\ hash_function(k1) = hash_function(k2))
        => /\ search(k1).raised = "none"
           /\ search(k1).result # None
           /\ contacts[search(k1).result] = Contact(k1, LatestNumber(k1))
           /\ search(k1).result # search(k2).result
           /\ (last.op = "search" /\ last.key = k1)
                => last.result = search(k1).result /\ last.raised = "none"

\* C6 witness: the search of a key that sits second in its chain, after the
\* head of that chain was given another number.
C6_Witness ==
    /\ size > 0
    /\ last.op = "search"
    /\ last.result # None
    /\ Len(log) = 3
    /\ log[1].key = log[3].key
    /\ log[2].key = last.key
    /\ log[1].key # log[2].key
    /\ log[3].number # log[2].number
    /\ hash_function(log[1].key) = hash_function(log[2].key)

\* C7: a table of capacity <= 0 is refused at construction with
\* InvalidCapacity, and no insert or search is executed on such a table.
C7_InvalidCapacity ==
    size <= 0 => last.op = "__init__" /\ last.raised = "InvalidCapacity"

\* C7, its second half alone: no insert or search runs on a table of
\* capacity <= 0.
C7_NoCallOnInvalidTable ==
    size <= 0 => last.op \notin {"insert", "search"}

\* The sum of the character codes of key, from its last character back.
RECURSIVE CodeSum(_)
CodeSum(key) ==
    IF key = <<>> THEN 0
    ELSE ord(key[Len(key)]) + CodeSum(SubSeq(key, 1, Len(key) - 1))

\* k1 and k2 hold the same characters the same number of times.
IsPermutation(k1, k2) ==
    /\ Len(k1) = Len(k2)
    /\ \A c \in Range(k1) \cup Range(k2) :
         Cardinality({ i \in DOMAIN k1 : k1[i] = c })
           = Cardinality({ i \in DOMAIN k2 : k2[i] = c })

\* C8: for every key and capacity > 0, hash_function(key) is the sum of the
\* key's character codes modulo the capacity, lies in [0, capacity), is 0
\* for the empty key, and is equal for keys that are permutations.
C8_HashFunction ==
    (size > 0 /\ last.op = "hash_function") =>
      /\ last.raised = "none"
      /\ last.result = CodeSum(last.key) % size
      /\ last.result \in 0..(size - 1)
      /\ last.key = <<>> => last.result = 0
      /\ \A k2 \in HashKeys :
           IsPermutation(k2, last.key) => hash_function(k2) = last.result

\* C8 witness: a key of two different characters hashed to a bucket other
\* than 0.
C8_Witness ==
    /\ size > 1
    /\ last.op = "hash_function"
    /\ Len(last.key) >= 2
    /\ last.key[1] # last.key[2]
    /\ last.result # 0

\* C9: search changes nothing (bucket array, chains, next links, Contacts),
\* and a search answers as a search of the same key just before it would.
C9_SearchPure ==
    [][last'.op = "search" =>
         /\ UNCHANGED <<size, data, nodes, contacts>>
         /\ \A k \in Keys : search(k)' = search(k)
         /\ last'.result = search(last'.key).result
         /\ last'.raised = search(last'.key).raised]_vars

\* C9 witness: a search found a key that is not the head of its chain.
C9_Witness ==
    /\ size > 0
    /\ last.op = "search"
    /\ last.result # None
    /\ nodes[data[hash_function(last.key) + 1]].key # last.key

\* C10: on a table of capacity > 0, insert(k, n) keeps every entry in its
\* bucket at its position with its key and name, leaves the other buckets
\* and the numbers of the other keys alone, and changes only the number of
\* k's entry or else adds one entry {k, Contact(k, n)} at the tail of k's
\* bucket.
C10_InsertFrame ==
    [][\A k \in Keys, n \in Numbers :
         (size > 0 /\ InsertStep(k, n)) =>
           LET h == hash_function(k) + 1
               old == Bucket(data, nodes, h)
               new == Len(nodes) + 1
           IN
           /\ last'.raised = "none"
           /\ \A s \in DOMAIN data :
                /\ IsPrefix(Bucket(data, nodes, s), Bucket(data', nodes', s))
                /\ s # h => /\ data'[s] = data[s]
                            /\ Bucket(data', nodes', s) = Bucket(data, nodes, s)
           /\ \A e \in 1..Len(nodes) :
                /\ nodes'[e].key = nodes[e].key
                /\ nodes'[e].value = nodes[e].value
                /\ contacts'[nodes[e].value].name = contacts[nodes[e].value].name
                /\ nodes[e].key # k =>
                     contacts'[nodes[e].value] = contacts[nodes[e].value]
           /\ IF \E p \in 1..Len(old) : nodes[old[p]].key = k
              THEN /\ data' = data
                   /\ nodes' = nodes
                   /\ contacts' = [contacts EXCEPT ![search(k).result].number = n]
              ELSE /\ Bucket(data', nodes', h) = Append(old, new)
                   /\ Len(nodes') = new
                   /\ nodes'[new].key = k
                   /\ nodes'[new].next = None
                   /\ nodes'[new].value = Len(contacts) + 1
                   /\ contacts' = Append(contacts, Contact(k, n))]_vars

\* C10 witness: a chain of two entries whose first key was then inserted
\* again with another number.
C10_Witness ==
    /\ size > 0
    /\ last.op = "insert"
    /\ Len(log) = 3
    /\ log[1].key = log[3].key
    /\ log[1].key # log[2].key
    /\ log[1].number # log[3].number
    /\ hash_function(log[1].key) = hash_function(log[2].key)
    /\ contacts[1].number = log[3].number

====
